---------------------------- MODULE Spec2Model ----------------------------
(***************************************************************************)
(* Model of the klsp editor integrations:                                  *)
(*   - the VS Code extension entry point  (e/code/s/e.ts),                 *)
(*   - the Neovim lspconfig snippet, as shipped in e/vim/example.lua and   *)
(*     as printed in the README,                                           *)
(*   - the Emacs lsp-mode snippet.                                         *)
(* Each integration is a small script run by its host editor; the host     *)
(* library calls the scripts make (LanguageClient, lspconfig, lsp-mode)    *)
(* are modelled by the effect they have on the host's registries.          *)
(***************************************************************************)
EXTENDS Integers, Sequences, FiniteSets, TLC

(* ------------------------------ bounds --------------------------------- *)

\* number of activate() calls explored
MaxActivations == 2
\* number of stop() calls explored on one client
MaxStops == 1
\* depth of the directory tree a Neovim buffer's file may live in
MaxDepth == 2

(* ------------------------- JavaScript values --------------------------- *)

\* the JavaScript value undefined, for strings and for object references
Undefined == "undefined"
NoClient == 0

\* values config.get<string>('klsp.path') can yield: absent, or a path that
\* names the server binary
ValidPaths == {"/usr/local/bin/klsp"}
PathValues == {Undefined} \cup ValidPaths

(* ------------------------ VS Code extension ---------------------------- *)

VARIABLES
    setting,        \* value of the klsp.path configuration entry
    client,         \* module-level `let client` (NoClient = undefined)
    clients,        \* LanguageClient objects constructed so far, by identity
    watchers,       \* globs handed to createFileSystemWatcher
    activateCalls,  \* number of calls of activate
    ret             \* what the last exported call returned

\* TransportKind.stdio
TransportKind_stdio == "stdio"

\* a mutation of ServerOptions: the launch goes over a socket
ServerOptionsIpc(serverPath) ==
    [ run   |-> [command |-> serverPath, transport |-> "ipc", args |-> <<>>],
      debug |-> [command |-> serverPath, transport |-> "ipc", args |-> <<>>] ]

\* a mutation of ServerOptions: debug mode passes an extra flag
ServerOptionsDebugFlag(serverPath) ==
    [ run   |-> [command |-> serverPath, transport |-> TransportKind_stdio,
                 args |-> <<>>],
      debug |-> [command |-> serverPath, transport |-> TransportKind_stdio,
                 args |-> <<"--debug">>] ]

\* const serverOptions = { run: {...}, debug: {...} }; no args are given
ServerOptions(serverPath) ==
    [ run   |-> [command |-> serverPath, transport |-> TransportKind_stdio,
                 args |-> <<>>],
      debug |-> [command |-> serverPath, transport |-> TransportKind_stdio,
                 args |-> <<>>] ]

\* const clientOptions = { documentSelector: [...], synchronize: {...} }
ClientOptions(watcher) ==
    [ documentSelector |-> << [scheme |-> "file", language |-> "k"] >>,
      synchronize      |-> [fileEvents |-> watcher] ]

\* new LanguageClient('klsp', 'K Language Server', serverOptions, clientOptions)
NewLanguageClient(id, name, serverOptions, clientOptions) ==
    [ id            |-> id,
      name          |-> name,
      serverOptions |-> serverOptions,
      clientOptions |-> clientOptions,
      startCalls    |-> 0,
      stopCalls     |-> 0,
      state         |-> "created" ]

\* a mutation of LanguageClientStart: a second start is issued as a retry
LanguageClientStartRetry(c) ==
    [c EXCEPT !.startCalls = @ + 2, !.state = "starting"]

\* client.start(): begins spawning the server; the promise is not awaited
LanguageClientStart(c) ==
    [c EXCEPT !.startCalls = @ + 1, !.state = "starting"]

\* client.stop(): shuts the session down and terminates the child process
LanguageClientStop(c) ==
    [c EXCEPT !.stopCalls = @ + 1, !.state = "stopped"]

RetUndefined(fn) == [fn |-> fn, value |-> "undefined", of |-> NoClient]
RetThenable(fn, id) == [fn |-> fn, value |-> "thenable", of |-> id]
RetThrew(fn) == [fn |-> fn, value |-> "threw", of |-> NoClient]

codeVars == <<setting, client, clients, watchers, activateCalls, ret>>

CodeInit ==
    /\ setting \in PathValues
    /\ client = NoClient
    /\ clients = <<>>
    /\ watchers = <<>>
    /\ activateCalls = 0
    /\ ret = RetUndefined("none")

\* the user edits the klsp.path setting
SetConfig ==
    /\ \E p \in PathValues : p # setting /\ setting' = p
    /\ UNCHANGED <<client, clients, watchers, activateCalls, ret>>

\* export function activate(context)
\* The LanguageClient is bound to a function-local `const client`, which
\* shadows the module-level variable: the module-level one is not assigned.
activate ==
    /\ activateCalls < MaxActivations
    /\ LET serverPath    == setting
           serverOptions == ServerOptions(serverPath)
           watcher       == Len(watchers) + 1
           clientOptions == ClientOptions(watcher)
           local         == NewLanguageClient(Len(clients) + 1, "klsp",
                                              serverOptions, clientOptions)
       IN  /\ watchers' = Append(watchers, "**/.clientrc")
           /\ clients' = Append(clients, LanguageClientStart(local))
    /\ activateCalls' = activateCalls + 1
    /\ ret' = RetUndefined("activate")
    /\ UNCHANGED <<setting, client>>

\* the promise of start() settles inside the client library: the spawn
\* succeeds only for a path that names the binary, and may fail for any
StartSettles ==
    /\ \E i \in 1..Len(clients) :
          /\ clients[i].state = "starting"
          /\ \E outcome \in {"running", "failed"} :
                /\ outcome = "running" =>
                      clients[i].serverOptions.run.command \in ValidPaths
                /\ clients' = [clients EXCEPT ![i].state = outcome]
    /\ UNCHANGED <<setting, client, watchers, activateCalls, ret>>

\* a mutation of deactivate: the `!client` test is missing, so stop() is
\* looked up on undefined
deactivateUnguarded ==
    /\ IF client = NoClient
       THEN /\ ret' = RetThrew("deactivate")
            /\ UNCHANGED clients
       ELSE /\ clients[client].stopCalls < MaxStops
            /\ clients' = [clients EXCEPT ![client] = LanguageClientStop(@)]
            /\ ret' = RetThenable("deactivate", client)
    /\ UNCHANGED <<setting, client, watchers, activateCalls>>

\* export function deactivate(): Thenable<void> | undefined
deactivate ==
    /\ IF client = NoClient
       THEN /\ ret' = RetUndefined("deactivate")
            /\ UNCHANGED clients
       ELSE /\ clients[client].stopCalls < MaxStops
            /\ clients' = [clients EXCEPT ![client] = LanguageClientStop(@)]
            /\ ret' = RetThenable("deactivate", client)
    /\ UNCHANGED <<setting, client, watchers, activateCalls>>

(* -------------------- Neovim: lspconfig snippet ------------------------ *)

\* the Lua value nil
Nil == "nil"

\* the two copies of the snippet
Variants == {"example", "README"}

\* what require('lspconfig/util') exports (the entries the snippets name)
LspconfigUtil == { [name |-> "find_git_ancestor", value |-> "find_git_ancestor"],
                   [name |-> "root_pattern",      value |-> "root_pattern"] }

\* t.key on a Lua table: the value stored under key, nil when there is none
LuaIndex(t, key) ==
    IF \E e \in t : e.name = key
    THEN (CHOOSE e \in t : e.name = key).value
    ELSE Nil

\* e/vim/example.lua: default_config = { ... root_dir = util.find_git_ancestor }
ExampleDefaultConfig(util) ==
    [ cmd                 |-> << "PATH_TO_KLSP" >>,
      cmd_env             |-> << >>,
      filetypes           |-> << "k" >>,
      root_dir            |-> LuaIndex(util, "find_git_ancestor"),
      single_file_support |-> TRUE ]

\* README: default_config = { ...
\*    root_dir = require('lspconfig.configs').find_git_ancestor }
\* the field is looked up in the registry of server configurations
ReadmeDefaultConfig(configs) ==
    [ cmd                 |-> << "PATH_TO_KLSP" >>,
      cmd_env             |-> << >>,
      filetypes           |-> << "k" >>,
      root_dir            |-> LuaIndex(configs, "find_git_ancestor"),
      single_file_support |-> TRUE ]

\* directories are paths from the filesystem root; these hold a .git
DirNames == {"a", "b"}
Dirs == UNION { [1..n -> DirNames] : n \in 0..MaxDepth }
GitRoots == { <<"a">>, <<"b", "a">> }
NoRoot == [found |-> FALSE, dir |-> <<>>]

\* util.find_git_ancestor(startpath): the nearest directory at or above
\* startpath that holds a .git entry
RECURSIVE find_git_ancestor(_)
find_git_ancestor(dir) ==
    IF dir \in GitRoots THEN [found |-> TRUE, dir |-> dir]
    ELSE IF dir = <<>> THEN NoRoot
    ELSE find_git_ancestor(SubSeq(dir, 1, Len(dir) - 1))

\* calling the configured root_dir on a buffer's directory; nil is no function
RootDir(root_dir, dir) ==
    IF root_dir = "find_git_ancestor" THEN find_git_ancestor(dir) ELSE NoRoot

NoAttach == [launched |-> FALSE, root |-> NoRoot, single_file |-> FALSE]

VARIABLES
    nvim,   \* per copy of the snippet: position, registry, enabled servers
    emacs   \* the Emacs session: position in the snippet, lsp-mode's tables

NvimInit ==
    nvim = [v \in Variants |->
              [pc |-> "start", configs |-> {}, enabled |-> <<>>,
               attached |-> NoAttach]]

\* lines 1-11 of the snippet: configs.k = { default_config = {...} }
\* the table constructor is evaluated before the assignment to configs.k
NvimDefine(v) ==
    /\ nvim[v].pc = "start"
    /\ LET registry == nvim[v].configs
           def == IF v = "example" THEN ExampleDefaultConfig(LspconfigUtil)
                                   ELSE ReadmeDefaultConfig(registry)
       IN  nvim' = [nvim EXCEPT
                      ![v].configs = registry \cup {[name |-> "k", value |-> def]},
                      ![v].pc = "defined"]
    /\ UNCHANGED <<codeVars, emacs>>

\* require("lspconfig")["k"].setup { }: the default_config, with no user
\* override, is enabled; a cmd given as a list of strings is spawned with
\* the protocol on its standard input/output
NvimSetup(v) ==
    /\ nvim[v].pc = "defined"
    /\ LET def == LuaIndex(nvim[v].configs, "k")
       IN  nvim' = [nvim EXCEPT
                      ![v].enabled = Append(@, [name |-> "k", config |-> def,
                                                rpc |-> "stdio"]),
                      ![v].pc = "ready"]
    /\ UNCHANGED <<codeVars, emacs>>

\* a buffer of filetype ft in directory dir is opened: an enabled server
\* whose filetypes list ft is launched at the root root_dir finds, or in
\* single-file mode when none is found and single_file_support is set
NvimOpen(v) ==
    /\ nvim[v].pc = "ready"
    /\ \E dir \in Dirs, ft \in {"k", "lua"} :
          LET srv  == nvim[v].enabled[1]
              fts  == { srv.config.filetypes[i] :
                          i \in 1..Len(srv.config.filetypes) }
              root == RootDir(srv.config.root_dir, dir)
          IN  nvim' = [nvim EXCEPT ![v].attached =
                  IF ft \notin fts THEN NoAttach
                  ELSE IF root.found
                       THEN [launched |-> TRUE, root |-> root,
                             single_file |-> FALSE]
                  ELSE IF srv.config.single_file_support
                       THEN [launched |-> TRUE, root |-> NoRoot,
                             single_file |-> TRUE]
                  ELSE NoAttach]
    /\ UNCHANGED <<codeVars, emacs>>

(* ---------------------- Emacs: lsp-mode snippet ------------------------ *)

MajorModes == {"k-mode", "k-language", "text-mode"}

\* the hook variable a major mode runs when a buffer enters it
ModeHook(mode) ==
    CASE mode = "k-mode"     -> "k-mode-hook"
      [] mode = "k-language" -> "k-language-hook"
      [] OTHER               -> "text-mode-hook"

\* lsp-language-id-configuration as (require 'lsp-mode) leaves it (an excerpt)
LspDefaultLanguageIds == << [key |-> "python-mode", id |-> "python"] >>

\* (add-to-list 'list element): element is put in front unless present
AddToList(list, element) ==
    IF \E i \in 1..Len(list) : list[i] = element THEN list
    ELSE <<element>> \o list

\* a mutation of LanguageIdEntry: the identifier declared is not "k"
LanguageIdEntryOtherId == [key |-> "k-language", id |-> "q"]

\* '(k-language . "k")
LanguageIdEntry == [key |-> "k-language", id |-> "k"]

\* (lsp-stdio-connection "path-to-klsp-binary")
StdioConnection(command) == [kind |-> "stdio", command |-> command]

\* (make-lsp-client :new-connection ... :major-modes '(k-mode) :server-id 'klsp)
MakeLspClient ==
    [ new_connection |-> StdioConnection("path-to-klsp-binary"),
      major_modes    |-> {"k-mode"},
      server_id      |-> "klsp" ]

\* lsp-buffer-language: the id of the first entry keyed by the buffer's mode
LspBufferLanguage(table, mode) ==
    IF \E i \in 1..Len(table) : table[i].key = mode
    THEN table[CHOOSE i \in 1..Len(table) :
                  /\ table[i].key = mode
                  /\ \A j \in 1..(i - 1) : table[j].key # mode].id
    ELSE Nil

NoBuffer == [mode |-> Nil, servers |-> {}, languageId |-> Nil]

EmacsInit ==
    emacs = [ pc |-> "require",
              lsp_language_id_configuration |-> <<>>,
              lsp_clients |-> <<>>,
              hooks |-> {},
              buffer |-> NoBuffer ]

\* (require 'lsp-mode)
EmacsRequire ==
    /\ emacs.pc = "require"
    /\ emacs' = [emacs EXCEPT
                   !.lsp_language_id_configuration = LspDefaultLanguageIds,
                   !.pc = "language-id"]
    /\ UNCHANGED <<codeVars, nvim>>

\* (add-to-list 'lsp-language-id-configuration '(k-language . "k"))
EmacsAddLanguageId ==
    /\ emacs.pc = "language-id"
    /\ emacs' = [emacs EXCEPT
                   !.lsp_language_id_configuration =
                        AddToList(@, LanguageIdEntry),
                   !.pc = "register"]
    /\ UNCHANGED <<codeVars, nvim>>

\* (lsp-register-client (make-lsp-client ...))
EmacsRegisterClient ==
    /\ emacs.pc = "register"
    /\ emacs' = [emacs EXCEPT !.lsp_clients = Append(@, MakeLspClient),
                              !.pc = "hook"]
    /\ UNCHANGED <<codeVars, nvim>>

\* (add-hook 'k-mode-hook #'lsp)
EmacsAddHook ==
    /\ emacs.pc = "hook"
    /\ emacs' = [emacs EXCEPT
                   !.hooks = @ \cup {[hook |-> "k-mode-hook", fn |-> "lsp"]},
                   !.pc = "done"]
    /\ UNCHANGED <<codeVars, nvim>>

\* a buffer enters a major mode and runs the mode's hook; lsp, when on the
\* hook, starts the registered clients that list the mode and names the
\* document by the language id the table gives the mode
EmacsOpen ==
    /\ emacs.pc = "done"
    /\ \E mode \in MajorModes :
          LET onHook  == [hook |-> ModeHook(mode), fn |-> "lsp"] \in emacs.hooks
              servers == { emacs.lsp_clients[i].server_id :
                             i \in { j \in 1..Len(emacs.lsp_clients) :
                                       mode \in emacs.lsp_clients[j].major_modes } }
          IN  emacs' = [emacs EXCEPT !.buffer =
                  IF onHook
                  THEN [mode |-> mode, servers |-> servers,
                        languageId |-> LspBufferLanguage(
                            emacs.lsp_language_id_configuration, mode)]
                  ELSE [mode |-> mode, servers |-> {}, languageId |-> Nil]]
    /\ UNCHANGED <<codeVars, nvim>>

(* --------------------------- specification ----------------------------- *)

vars == <<codeVars, nvim, emacs>>

Init == CodeInit /\ NvimInit /\ EmacsInit

Next ==
    \/ SetConfig /\ UNCHANGED <<nvim, emacs>>
    \/ activate /\ UNCHANGED <<nvim, emacs>>
    \/ StartSettles /\ UNCHANGED <<nvim, emacs>>
    \/ deactivate /\ UNCHANGED <<nvim, emacs>>
    \/ \E v \in Variants : NvimDefine(v)
    \/ \E v \in Variants : NvimSetup(v)
    \/ \E v \in Variants : NvimOpen(v)
    \/ EmacsRequire
    \/ EmacsAddLanguageId
    \/ EmacsRegisterClient
    \/ EmacsAddHook
    \/ EmacsOpen

Spec == Init /\ [][Next]_vars

(* ------------------------------ claims --------------------------------- *)

\* the step just taken is a call of activate
ActivateStep == activateCalls' = activateCalls + 1

\* C1: when deactivate is called after activate, it calls stop() on the
\* client activate created and returns the result of that call, so the
\* client is torn down and the server process terminated.
C1_DeactivateStopsClient ==
    (ret.fn = "deactivate" /\ activateCalls >= 1) =>
        /\ ret.value = "thenable"
        /\ ret.of = Len(clients)
        /\ clients[ret.of].stopCalls >= 1
        /\ clients[ret.of].state = "stopped"

\* C2: for a valid klsp.path, activate starts a LanguageClient whose server
\* command is that path, whose transport is stdio and whose document
\* selector is language 'k', scheme 'file'.
C2_ActivateStartsConfiguredClient ==
    [][ (ActivateStep /\ setting \in ValidPaths) =>
          /\ Len(clients') = Len(clients) + 1
          /\ LET c == clients'[Len(clients')]
             IN  /\ c.startCalls = 1
                 /\ c.state = "starting"
                 /\ c.serverOptions.run.command = setting
                 /\ c.serverOptions.debug.command = setting
                 /\ c.serverOptions.run.transport = TransportKind_stdio
                 /\ c.serverOptions.debug.transport = TransportKind_stdio
                 /\ c.clientOptions.documentSelector
                      = << [scheme |-> "file", language |-> "k"] >> ]_vars

C2_Witness ==
    \E i \in 1..Len(clients) :
        /\ clients[i].serverOptions.run.command \in ValidPaths
        /\ clients[i].startCalls = 1
        /\ clients[i].state = "running"

\* C3: the launch options activate builds for run mode and for debug mode
\* are identical for every value of klsp.path, undefined included: the
\* configured value as command, stdio as transport, no launch arguments.
C3_RunAndDebugOptionsIdentical ==
    [][ ActivateStep =>
          LET so == clients'[Len(clients')].serverOptions
          IN  /\ so.run = so.debug
              /\ so.run.command = setting
              /\ so.run.transport = TransportKind_stdio
              /\ so.run.args = <<>> ]_vars

C3_Witness ==
    /\ \E i \in 1..Len(clients) :
          clients[i].serverOptions.debug.command = Undefined
    /\ \E i \in 1..Len(clients) :
          clients[i].serverOptions.debug.command \in ValidPaths

\* C4: no retry and no recovery: every call of activate constructs one
\* LanguageClient and calls start() on it once, whatever klsp.path is and
\* however the start ends; activate reports no error, and the module-level
\* state after a failed start is what it is after a successful one.
C4_NoRetryNoRecovery ==
    /\ Len(clients) = activateCalls
    /\ Len(watchers) = activateCalls
    /\ \A i \in 1..Len(clients) :
          /\ clients[i].id = i
          /\ clients[i].startCalls = 1
          /\ clients[i].state \in {"failed", "running"} => client = NoClient
    /\ ret.fn = "activate" => ret.value = "undefined"

C4_Witness ==
    /\ activateCalls = 2
    /\ ret.fn = "activate"
    /\ \E i, j \in 1..Len(clients) :
          /\ clients[i].state = "failed"
          /\ clients[i].serverOptions.run.command = Undefined
          /\ clients[j].state = "running"

\* what an integration has set up: the language identifiers it declares,
\* the transports of the spawn commands it declares, whether a client is
\* registered with the host
NvimSteps(v) ==
    LET en == nvim[v].enabled
    IN  [ languageIds |-> UNION { { en[i].config.filetypes[j] :
                                      j \in 1..Len(en[i].config.filetypes) } :
                                  i \in 1..Len(en) },
          transports  |-> { en[i].rpc : i \in 1..Len(en) },
          registered  |-> Len(en) > 0 ]

EmacsSteps ==
    LET table == emacs.lsp_language_id_configuration
        dflt  == { LspDefaultLanguageIds[i] : i \in 1..Len(LspDefaultLanguageIds) }
    IN  [ languageIds |-> { table[i].id :
                              i \in { j \in 1..Len(table) : table[j] \notin dflt } },
          transports  |-> { emacs.lsp_clients[i].new_connection.kind :
                              i \in 1..Len(emacs.lsp_clients) },
          registered  |-> Len(emacs.lsp_clients) > 0 ]

CodeSteps ==
    [ languageIds |-> UNION { { clients[i].clientOptions.documentSelector[j].language :
                                  j \in 1..Len(clients[i].clientOptions.documentSelector) } :
                              i \in 1..Len(clients) },
      transports  |-> UNION { { clients[i].serverOptions.run.transport,
                                clients[i].serverOptions.debug.transport } :
                              i \in 1..Len(clients) },
      registered  |-> \E i \in 1..Len(clients) : clients[i].startCalls >= 1 ]

AllIntegrationsDone ==
    /\ nvim["example"].pc = "ready"
    /\ emacs.pc = "done"
    /\ activateCalls >= 1

C6_ReadmeMatchesExample ==
    (nvim["README"].pc = "ready" /\ nvim["example"].pc = "ready") =>
        LET r == nvim["README"].enabled[1].config
            e == nvim["example"].enabled[1].config
        IN  /\ r.root_dir = "find_git_ancestor"
            /\ e.root_dir = "find_git_ancestor"
            /\ r.cmd = e.cmd
            /\ r.cmd_env = e.cmd_env
            /\ r.filetypes = e.filetypes
            /\ r.filetypes = << "k" >>
            /\ r.single_file_support = e.single_file_support
            /\ r.single_file_support = TRUE

\* C7: in the Emacs configuration the major mode the klsp client is
\* registered for, and on whose hook lsp is started, is a mode the
\* language-id table maps to "k".
C7_RegisteredModeHasLanguageIdK ==
    emacs.pc = "done" =>
        \A i \in 1..Len(emacs.lsp_clients) :
            \A mode \in emacs.lsp_clients[i].major_modes :
                /\ [hook |-> ModeHook(mode), fn |-> "lsp"] \in emacs.hooks
                /\ LspBufferLanguage(emacs.lsp_language_id_configuration, mode)
                     = "k"

\* C8: deactivate called before any activate returns undefined, calls
\* stop() on nothing, does not throw, and leaves the module state as it was.
C8_DeactivateWithoutClient ==
    (ret.fn = "deactivate" /\ activateCalls = 0) =>
        /\ ret = RetUndefined("deactivate")
        /\ client = NoClient
        /\ clients = <<>>
        /\ watchers = <<>>

C8_Witness ==
    /\ ret.fn = "deactivate"
    /\ activateCalls = 0

=============================================================================
